---- MODULE Spec2Model ----
(***************************************************************************)
(* Model of pyspark_ai/tool.py: the three agent tools QuerySparkSQLTool,   *)
(* QueryValidationTool and SimilarValueTool, and VectorSearchUtil.         *)
(*                                                                         *)
(* Python strings are sequences of one-character strings, so prefixes,     *)
(* split("|"), concatenation and fenced blocks are computed, not assumed.  *)
(* Optional[T] is a record [some, val]; None is [some |-> FALSE].          *)
(* The SQL engine (spark.sql), the file system and the FAISS library are   *)
(* the environment: the engine's answer to each call is an input of the    *)
(* action, the file system is the variable disk.                           *)
(***************************************************************************)
EXTENDS Integers, Sequences, FiniteSets, TLC

\* Bounds of the model.
MaxRows == 2      \* most rows one engine answer carries
MaxCorpus == 2    \* longest corpus handed directly to vector_similarity_search

(***************************************************************************)
(* Strings                                                                 *)
(***************************************************************************)
ErrorPrefix == <<"E", "r", "r", "o", "r", ":", " ">>
OK == <<"O", "K">>
Pipe == "|"
\* the backquote character (U+0060), named because the lexer rejects it in a string
BQ == "bq"
Fence == <<BQ, BQ, BQ>>

StartsWith(s, p) == Len(s) >= Len(p) /\ SubSeq(s, 1, Len(p)) = p

None == [some |-> FALSE, val |-> <<>>]
Some(v) == [some |-> TRUE, val |-> v]
\* Python truthiness of an Optional[str] / Optional[list]
Truthy(o) == o.some /\ o.val # <<>>

(***************************************************************************)
(* Outcomes of a call: a returned value or a raised exception.             *)
(***************************************************************************)
NoOutcome == [kind |-> "none", value |-> <<>>, exc |-> "none"]
Return(v) == [kind |-> "return", value |-> v, exc |-> "none"]
\* exception of type e whose str() is m
Raise(e, m) == [kind |-> "raise", value |-> m, exc |-> e]

(***************************************************************************)
(* The SQL engine.  spark.sql(q) either yields rows, raises a              *)
(* PySparkException carrying a message, or raises something that is not a  *)
(* PySparkException (for instance a Py4J error).                           *)
(***************************************************************************)
Bob == <<"B", "o", "b">>
Rob == <<"R", "o", "b">>
Al == <<"A", "l">>
Values == {Bob, Al}
SearchTexts == {Rob, Al}

SeqsUpTo(S, n) == UNION {[1..k -> S] : k \in 0..n}
NoDup(s) == \A i, j \in 1..Len(s) : s[i] = s[j] => i = j

Msgs == {<<"b", "a", "d">>, <<>>}

EngineOk(rows) == [kind |-> "ok", rows |-> rows, msg |-> <<>>]
EngineError(m) == [kind |-> "PySparkException", rows |-> <<>>, msg |-> m]
EngineOther == [kind |-> "Exception", rows |-> <<>>, msg |-> <<>>]

EngineOutcomes ==
    {EngineOk(r) : r \in SeqsUpTo(Values, MaxRows)}
        \cup {EngineError(m) : m \in Msgs} \cup {EngineOther}

\* what "select distinct" can answer: no value twice
DistinctOutcomes ==
    {o \in EngineOutcomes : o.kind = "ok" => NoDup(o.rows)}

\* answers to a statement whose rows the caller does not read
PlainOutcomes ==
    {EngineOk(<<>>), EngineOk(<<Bob>>), EngineOther} \cup {EngineError(m) : m \in Msgs}

\* the answer drawn for an invocation that never reaches the engine
Unasked == {EngineOk(<<Bob>>)}

Sent(q, out) == [query |-> q, out |-> out]

VARIABLES
    pyspark_errors,    \* whether "from pyspark.errors import PySparkException" succeeds
    vector_store_dir,  \* SimilarValueTool.vector_store_dir : Optional[str]
    disk,              \* path -> Optional persisted index (its texts, in order)
    call,              \* the last invocation: tool, op and its arguments
    ret,               \* what the last invocation returned or raised
    sqlLog,            \* the spark.sql calls of the last invocation, with the answers of the engine
    indexOps,          \* the FAISS calls of the last invocation
    vssArgs            \* the arguments of the vector_similarity_search call of the last invocation

vars == <<pyspark_errors, vector_store_dir, disk, call, ret, sqlLog, indexOps, vssArgs>>

(***************************************************************************)
(* What one invocation does: its outcome, the spark.sql calls it made, the *)
(* FAISS calls it made, the file system it leaves, and the arguments it    *)
(* handed to vector_similarity_search (if it got that far).                *)
(***************************************************************************)
NoVss == [called |-> FALSE, col_lst |-> None, vector_store_path |-> None, search_text |-> <<>>]
Vss(c, p, t) == [called |-> TRUE, col_lst |-> c, vector_store_path |-> p, search_text |-> t]
Eff(r, sql, ops, d, v) == [ret |-> r, sql |-> sql, ops |-> ops, disk |-> d, vss |-> v]

(***************************************************************************)
(* QuerySparkSQLTool                                                       *)
(***************************************************************************)
q1 == <<"q", "1">>
q2 == <<"q", "2">>
Queries == {q1, q2}

RECURSIVE JoinRows(_)
JoinRows(rows) ==
    IF rows = <<>> THEN <<>>
    ELSE IF Len(rows) = 1 THEN rows[1]
    ELSE rows[1] \o <<",">> \o JoinRows(Tail(rows))

\* SparkUtils.get_dataframe_results: the rows serialised, nothing for no rows
get_dataframe_results(rows) == JoinRows(rows)

\* Python str() of a str
str(s) == s

\* spark.sql(command) answered by out, then the rows formatted
\* faulty variant: the rows are printed as a Python list
_run_command_list(command, out) ==
    IF out.kind = "ok" THEN Return(<<"[">> \o get_dataframe_results(out.rows) \o <<"]">>)
    ELSE Raise(out.kind, out.msg)

_run_command(command, out) ==
    IF out.kind = "ok" THEN Return(str(get_dataframe_results(out.rows)))
    ELSE Raise(out.kind, out.msg)

\* faulty variant: the except clause is missing
_run_no_throw_uncaught(command, out, importable) ==
    IF ~importable
    THEN Eff(Raise("ValueError", <<>>), <<>>, <<>>, disk, NoVss)
    ELSE Eff(_run_command(command, out), <<Sent(command, out)>>, <<>>, disk, NoVss)

_run_no_throw(command, out, importable) ==
    IF ~importable
    THEN Eff(Raise("ValueError", <<>>), <<>>, <<>>, disk, NoVss)
    ELSE LET r == _run_command(command, out)
         IN  IF r.kind = "raise" /\ r.exc = "PySparkException"
             THEN Eff(Return(ErrorPrefix \o r.value), <<Sent(command, out)>>, <<>>, disk, NoVss)
             ELSE Eff(r, <<Sent(command, out)>>, <<>>, disk, NoVss)

QuerySparkSQLTool_run(query, out, importable) == _run_no_throw(query, out, importable)

QuerySparkSQLTool_arun(query, out, importable) ==
    Eff(Raise("NotImplementedError", <<>>), <<>>, <<>>, disk, NoVss)

(***************************************************************************)
(* QueryValidationTool                                                     *)
(***************************************************************************)
\* least i >= from where p occurs in s, 0 when it does not
Find(s, p, from) ==
    LET hits == {i \in from..(Len(s) - Len(p) + 1) : SubSeq(s, i, i + Len(p) - 1) = p}
    IN  IF hits = {} THEN 0 ELSE CHOOSE i \in hits : \A j \in hits : i <= j

RECURSIVE FencedBlocks(_, _)
FencedBlocks(s, from) ==
    LET a == Find(s, Fence, from)
    IN  IF a = 0 THEN <<>>
        ELSE LET b == Find(s, Fence, a + Len(Fence))
             IN  IF b = 0 THEN <<>>
                 ELSE <<SubSeq(s, a + Len(Fence), b - 1)>> \o FencedBlocks(s, b + Len(Fence))

\* AIUtils.extract_code_blocks: the contents of the fenced blocks, in order.
\* With no fenced block the helper falls back in a way the design leaves open:
\* the whole text as one block, or no block at all.
extract_code_blocks(text) ==
    IF FencedBlocks(text, 1) # <<>> THEN {FencedBlocks(text, 1)}
    ELSE {<<text>>, <<>>}

\* faulty variant: extract_code_blocks(query)[-1]
LastBlock(blocks) == blocks[Len(blocks)]

\* extract_code_blocks(query)[0]
FirstBlock(blocks) == blocks[1]

QueryValidationTool_run(query, blocks, out, importable) ==
    IF ~importable
    THEN Eff(Raise("ValueError", <<>>), <<>>, <<>>, disk, NoVss)
    ELSE IF blocks = <<>>
    THEN Eff(Raise("IndexError", <<>>), <<>>, <<>>, disk, NoVss)
    ELSE LET actual_query == FirstBlock(blocks)
             sql == <<Sent(actual_query, out)>>
         IN  IF out.kind = "ok" THEN Eff(Return(OK), sql, <<>>, disk, NoVss)
             ELSE IF out.kind = "PySparkException"
             THEN Eff(Return(ErrorPrefix \o out.msg), sql, <<>>, disk, NoVss)
             ELSE Eff(Raise(out.kind, out.msg), sql, <<>>, disk, NoVss)

QueryValidationTool_arun(query, blocks, out, importable) ==
    Eff(Raise("NotImplementedError", <<>>), <<>>, <<>>, disk, NoVss)

Prose == <<"h", "i", " ">>
Fenced1 == Prose \o Fence \o q1 \o Fence \o <<" ", "o", "k">>
Fenced2 == Prose \o Fence \o q1 \o Fence \o <<" ">> \o Fence \o q2 \o Fence
Unclosed == Prose \o Fence \o q2
ValidationInputs == {Fenced1, Fenced2, q1, Unclosed}

(***************************************************************************)
(* VectorSearchUtil                                                        *)
(***************************************************************************)
IdxPath == <<"i", "d", "x">>
ViewColPath == <<"t", "_", "c">>
\* where SimilarValueTool would keep its index under the directory "d/"
DirViewColPath == <<"d", "/">> \o ViewColPath
DiskPaths == {IdxPath, ViewColPath, DirViewColPath}

\* os.path.exists(p)
exists(d, p) == p \in DOMAIN d /\ d[p].some

\* FAISS.from_texts(col_lst, embeddings): the index keeps the texts in order.
\* None cannot be iterated and an empty list has no first embedding.
FAISS_from_texts(col_lst) ==
    IF ~col_lst.some THEN Raise("TypeError", <<>>)
    ELSE IF col_lst.val = <<>> THEN Raise("IndexError", <<>>)
    ELSE Return(col_lst.val)

\* distance of the embeddings of two texts: the positions where they differ
Distance(a, b) ==
    LET n == IF Len(a) >= Len(b) THEN Len(a) ELSE Len(b)
    IN  Cardinality({i \in 1..n : i > Len(a) \/ i > Len(b) \/ a[i] # b[i]})

\* vector_db.similarity_search(search_text)[0].page_content:
\* the nearest text, the earliest one among equally near texts
similarity_search(db, search_text) ==
    LET best == CHOOSE i \in 1..Len(db) :
                    \A j \in 1..Len(db) :
                        \/ Distance(db[i], search_text) < Distance(db[j], search_text)
                        \/ Distance(db[i], search_text) = Distance(db[j], search_text) /\ i <= j
    IN  db[best]

\* faulty variant: the index is rebuilt and saved whether or not one exists
vector_similarity_search_rebuild(col_lst, vector_store_path, search_text, d) ==
    LET built == FAISS_from_texts(col_lst)
    IN  IF built.kind = "raise"
        THEN [ret |-> built, ops |-> <<"from_texts">>, disk |-> d]
        ELSE IF Truthy(vector_store_path)
        THEN [ret |-> Return(similarity_search(built.value, search_text)),
              ops |-> <<"from_texts", "save_local">>,
              disk |-> [d EXCEPT ![vector_store_path.val] = Some(built.value)]]
        ELSE [ret |-> Return(similarity_search(built.value, search_text)),
              ops |-> <<"from_texts">>, disk |-> d]

vector_similarity_search(col_lst, vector_store_path, search_text, d) ==
    IF Truthy(vector_store_path) /\ exists(d, vector_store_path.val)
    THEN LET vector_db == d[vector_store_path.val].val
         IN  [ret |-> Return(similarity_search(vector_db, search_text)),
              ops |-> <<"load_local">>, disk |-> d]
    ELSE LET built == FAISS_from_texts(col_lst)
         IN  IF built.kind = "raise"
             THEN [ret |-> built, ops |-> <<"from_texts">>, disk |-> d]
             ELSE IF Truthy(vector_store_path)
             THEN [ret |-> Return(similarity_search(built.value, search_text)),
                   ops |-> <<"from_texts", "save_local">>,
                   disk |-> [d EXCEPT ![vector_store_path.val] = Some(built.value)]]
             ELSE [ret |-> Return(similarity_search(built.value, search_text)),
                   ops |-> <<"from_texts">>, disk |-> d]

Corpora == {None} \cup {Some(c) : c \in SeqsUpTo(Values, MaxCorpus)}
PathArgs == {None, Some(<<>>), Some(IdxPath)}

(***************************************************************************)
(* SimilarValueTool                                                        *)
(***************************************************************************)
\* inputs.split("|")
RECURSIVE split(_)
split(s) ==
    LET hits == {i \in 1..Len(s) : s[i] = Pipe}
    IN  IF hits = {} THEN <<s>>
        ELSE LET i == CHOOSE k \in hits : \A j \in hits : k <= j
             IN  <<SubSeq(s, 1, i - 1)>> \o split(SubSeq(s, i + 1, Len(s)))

\* "select distinct `{}` from {}".format(col, temp_name)
SelectDistinct(col, temp_name) ==
    <<"s", "e", "l", "e", "c", "t", " ", "d", "i", "s", "t", "i", "n", "c", "t", " ", BQ>>
        \o col \o <<BQ, " ", "f", "r", "o", "m", " ">> \o temp_name

\* faulty variant: the storage-directory test the other way round
SimilarValueTool_run_dir(inputs, out, dir, d) ==
    LET input_lst == split(inputs)
    IN  IF Len(input_lst) < 3
        THEN Eff(Raise("IndexError", <<>>), <<>>, <<>>, d, NoVss)
        ELSE
        LET search_text == input_lst[1]
            col == input_lst[2]
            temp_name == input_lst[3]
        IN  IF Truthy(dir)
            THEN LET sql == <<Sent(SelectDistinct(col, temp_name), out)>>
                 IN  IF out.kind # "ok"
                     THEN Eff(Raise(out.kind, out.msg), sql, <<>>, d, NoVss)
                     ELSE LET col_lst == Some([i \in 1..Len(out.rows) |-> str(out.rows[i])])
                              vector_store_path == Some(dir.val \o temp_name \o <<"_">> \o col)
                              v == vector_similarity_search(col_lst, vector_store_path, search_text, d)
                          IN  Eff(v.ret, sql, v.ops, v.disk,
                                  Vss(col_lst, vector_store_path, search_text))
            ELSE LET v == vector_similarity_search(None, None, search_text, d)
                 IN  Eff(v.ret, <<>>, v.ops, v.disk, Vss(None, None, search_text))

SimilarValueTool_run(inputs, out, dir, d) ==
    LET input_lst == split(inputs)
    IN  IF Len(input_lst) < 3
        THEN Eff(Raise("IndexError", <<>>), <<>>, <<>>, d, NoVss)
        ELSE
        LET search_text == input_lst[1]
            col == input_lst[2]
            temp_name == input_lst[3]
        IN  IF ~Truthy(dir)
            THEN LET sql == <<Sent(SelectDistinct(col, temp_name), out)>>
                 IN  IF out.kind # "ok"
                     THEN Eff(Raise(out.kind, out.msg), sql, <<>>, d, NoVss)
                     ELSE IF ~dir.some
                     THEN \* None + str
                          Eff(Raise("TypeError", <<>>), sql, <<>>, d, NoVss)
                     ELSE LET col_lst == Some([i \in 1..Len(out.rows) |-> str(out.rows[i])])
                              vector_store_path == Some(dir.val \o temp_name \o <<"_">> \o col)
                              v == vector_similarity_search(col_lst, vector_store_path, search_text, d)
                          IN  Eff(v.ret, sql, v.ops, v.disk,
                                  Vss(col_lst, vector_store_path, search_text))
            ELSE LET v == vector_similarity_search(None, None, search_text, d)
                 IN  Eff(v.ret, <<>>, v.ops, v.disk, Vss(None, None, search_text))

\* faulty variant: the asynchronous path wraps the synchronous one
SimilarValueTool_arun_blocking(inputs, out, dir, d) == SimilarValueTool_run(inputs, out, dir, d)

SimilarValueTool_arun(inputs, out, dir, d) ==
    Eff(Raise("NotImplementedError", <<>>), <<>>, <<>>, d, NoVss)

ColViewSuffix == <<"|", "c", "|", "t">>
ThreeFields == {Rob \o ColViewSuffix, Al \o ColViewSuffix}
FourFields == Rob \o ColViewSuffix \o <<"|", "z">>
TwoFields == <<"x", "|", "y">>
OneField == <<"x">>
SimilarInputs == ThreeFields \cup {FourFields, TwoFields, OneField}

StoreDir == <<"d", "/">>
Dirs == {None, Some(<<>>), Some(StoreDir)}

(***************************************************************************)
(* The state machine                                                       *)
(***************************************************************************)
Call(tool, op, input) ==
    [tool |-> tool, op |-> op, input |-> input,
     col_lst |-> None, vector_store_path |-> None]

Apply(e) ==
    /\ ret' = e.ret
    /\ sqlLog' = e.sql
    /\ indexOps' = e.ops
    /\ disk' = e.disk
    /\ vssArgs' = e.vss
    /\ UNCHANGED <<pyspark_errors, vector_store_dir>>

Init ==
    /\ pyspark_errors \in BOOLEAN
    /\ vector_store_dir \in Dirs
    /\ disk = [p \in DiskPaths |-> None]
    /\ call = Call("none", "none", <<>>)
    /\ ret = NoOutcome
    /\ sqlLog = <<>>
    /\ indexOps = <<>>
    /\ vssArgs = NoVss

QuerySparkSQLRun ==
    \E query \in Queries, out \in EngineOutcomes :
        /\ call' = Call("query_sql_db", "_run", query)
        /\ Apply(QuerySparkSQLTool_run(query, out, pyspark_errors))

QuerySparkSQLArun ==
    \E query \in Queries, out \in Unasked :
        /\ call' = Call("query_sql_db", "_arun", query)
        /\ Apply(QuerySparkSQLTool_arun(query, out, pyspark_errors))

QueryValidationRun ==
    \E query \in ValidationInputs, out \in PlainOutcomes :
        \E blocks \in extract_code_blocks(query) :
            /\ call' = Call("query_validation", "_run", query)
            /\ Apply(QueryValidationTool_run(query, blocks, out, pyspark_errors))

QueryValidationArun ==
    \E query \in ValidationInputs, out \in Unasked :
        \E blocks \in extract_code_blocks(query) :
            /\ call' = Call("query_validation", "_arun", query)
            /\ Apply(QueryValidationTool_arun(query, blocks, out, pyspark_errors))

VectorSimilaritySearch ==
    \E col_lst \in Corpora, vector_store_path \in PathArgs, search_text \in SearchTexts :
        LET v == vector_similarity_search(col_lst, vector_store_path, search_text, disk)
        IN  /\ call' = [tool |-> "vector_similarity_search", op |-> "call",
                        input |-> search_text, col_lst |-> col_lst,
                        vector_store_path |-> vector_store_path]
            /\ Apply(Eff(v.ret, <<>>, v.ops, v.disk,
                         Vss(col_lst, vector_store_path, search_text)))

SimilarValueRun ==
    \E inputs \in SimilarInputs, out \in DistinctOutcomes :
        \* the engine has no PySparkException to raise where pyspark.errors is missing
        /\ out.kind = "PySparkException" => pyspark_errors
        /\ call' = Call("similar_value", "_run", inputs)
        /\ Apply(SimilarValueTool_run(inputs, out, vector_store_dir, disk))

SimilarValueArun ==
    \E inputs \in SimilarInputs, out \in Unasked :
        /\ call' = Call("similar_value", "_arun", inputs)
        /\ Apply(SimilarValueTool_arun(inputs, out, vector_store_dir, disk))

Next ==
    \/ QuerySparkSQLRun
    \/ QuerySparkSQLArun
    \/ QueryValidationRun
    \/ QueryValidationArun
    \/ VectorSimilaritySearch
    \/ SimilarValueRun
    \/ SimilarValueArun

Spec == Init /\ [][Next]_vars

(***************************************************************************)
(* Properties                                                              *)
(***************************************************************************)
QueryRun == call.tool = "query_sql_db" /\ call.op = "_run"
ValidationRun == call.tool = "query_validation" /\ call.op = "_run"
SimilarRun == call.tool = "similar_value" /\ call.op = "_run"
Ops(log) == {log[i] : i \in 1..Len(log)}

\* C1: whenever the engine answers a synchronous QuerySparkSQLTool run with an
\* engine exception, the run returns "Error: " followed by the engine's
\* message, and raises nothing.
C1_EngineErrorReturned ==
    (QueryRun /\ sqlLog # <<>> /\ sqlLog[1].out.kind = "PySparkException")
        => /\ ret.kind = "return"
           /\ StartsWith(ret.value, ErrorPrefix)
           /\ ret.value = <<"E", "r", "r", "o", "r", ":", " ">> \o sqlLog[1].out.msg

C1_Witness ==
    /\ QueryRun
    /\ sqlLog = <<Sent(q1, EngineError(<<"b", "a", "d">>))>>
    /\ ret = Return(<<"E", "r", "r", "o", "r", ":", " ", "b", "a", "d">>)

\* C2: in a synchronous run of any of the three tools, an engine exception
\* raised by spark.sql is returned as an "Error: ..." string and never
\* propagated.
C2_EveryToolCatchesEngineErrors ==
    (call.op = "_run" /\ sqlLog # <<>> /\ sqlLog[Len(sqlLog)].out.kind = "PySparkException")
        => ret.kind = "return" /\ StartsWith(ret.value, ErrorPrefix)

\* C3 (as stated): a QueryValidationTool run on prose around a fenced block
\* sends exactly the first block to the engine and ends in one of two ways:
\* "OK" when the engine accepts, an "Error: " string when it raises an engine
\* exception.
C3_OnlyTwoOutcomes ==
    (ValidationRun /\ call.input \in {Fenced1, Fenced2})
        => /\ Len(sqlLog) = 1
           /\ sqlLog[1].query = <<"q", "1">>
           /\ \/ sqlLog[1].out.kind = "ok" /\ ret = Return(<<"O", "K">>)
              \/ /\ sqlLog[1].out.kind = "PySparkException"
                 /\ ret.kind = "return"
                 /\ StartsWith(ret.value, ErrorPrefix)

\* C3 (amended): when pyspark.errors cannot be imported the run raises
\* ValueError and sends nothing; otherwise it sends exactly the first fenced
\* block, returns "OK" when the engine accepts it, "Error: " + message when the
\* engine raises a PySparkException, and lets any other exception through.
C3_FirstBlockValidated ==
    (ValidationRun /\ call.input \in {Fenced1, Fenced2})
        => IF ~pyspark_errors
           THEN ret.kind = "raise" /\ ret.exc = "ValueError" /\ sqlLog = <<>>
           ELSE /\ Len(sqlLog) = 1
                /\ sqlLog[1].query = <<"q", "1">>
                /\ sqlLog[1].out.kind = "ok" => ret = Return(<<"O", "K">>)
                /\ sqlLog[1].out.kind = "PySparkException"
                       => ret = Return(<<"E", "r", "r", "o", "r", ":", " ">> \o sqlLog[1].out.msg)
                /\ sqlLog[1].out.kind = "Exception"
                       => ret.kind = "raise" /\ ret.exc = "Exception"

C3_Witness ==
    /\ ValidationRun
    /\ call.input = Fenced2
    /\ sqlLog = <<Sent(q1, EngineOk(<<>>))>>
    /\ ret = Return(OK)

C5_NonNullPathBuildsOnce ==
    [][(vssArgs'.called /\ vssArgs'.vector_store_path.some)
        => LET p == vssArgs'.vector_store_path.val
               t == vssArgs'.search_text
           IN  IF exists(disk, p)
               THEN /\ indexOps' = <<"load_local">>
                    /\ disk' = disk
                    /\ ret' = Return(similarity_search(disk[p].val, t))
               ELSE /\ indexOps' = <<"from_texts", "save_local">>
                    /\ exists(disk', p)
                    /\ disk'[p] = vssArgs'.col_lst]_vars

\* C5 (amended): for a non-empty path.  A call made while no index exists at
\* the path builds from its corpus and writes the index when the corpus is
\* non-empty, and fails writing nothing when the corpus is null or empty.  A
\* call made while an index exists loads it, neither rebuilds nor rewrites it,
\* ignores its corpus and answers from the stored index, so an index once
\* written never changes and a search text keeps its top match.
C5_NonEmptyPathBuildsOnce ==
    [][(vssArgs'.called /\ Truthy(vssArgs'.vector_store_path))
        => LET p == vssArgs'.vector_store_path.val
               c == vssArgs'.col_lst
               t == vssArgs'.search_text
           IN  IF exists(disk, p)
               THEN /\ indexOps' = <<"load_local">>
                    /\ disk' = disk
                    /\ ret' = Return(similarity_search(disk[p].val, t))
               ELSE IF Truthy(c)
               THEN /\ indexOps' = <<"from_texts", "save_local">>
                    /\ disk' = [disk EXCEPT ![p] = c]
                    /\ ret' = Return(similarity_search(c.val, t))
               ELSE /\ ret'.kind = "raise"
                    /\ "save_local" \notin Ops(indexOps')
                    /\ disk' = disk]_vars

C5_Witness ==
    /\ call.tool = "vector_similarity_search"
    /\ vssArgs.vector_store_path = Some(IdxPath)
    /\ vssArgs.col_lst = Some(<<Al>>)
    /\ vssArgs.search_text = Al
    /\ disk[IdxPath] = Some(<<Bob>>)
    /\ indexOps = <<"load_local">>
    /\ ret = Return(Bob)

\* C6: a vector_similarity_search call with a null or empty corpus and no
\* index at the path fails with InvalidInput and writes nothing.
C6_EmptyCorpusInvalidInput ==
    (/\ vssArgs.called
     /\ ~Truthy(vssArgs.col_lst)
     /\ ~(Truthy(vssArgs.vector_store_path) /\ exists(disk, vssArgs.vector_store_path.val)))
        => /\ ret.kind = "raise"
           /\ ret.exc = "InvalidInput"
           /\ "save_local" \notin Ops(indexOps)

\* C7: with vector_store_dir unset, a SimilarValueTool run on a three-field
\* input sends the one distinct-values query, hands the values to the vector
\* search as the corpus and returns the value nearest to the search text.
C7_UnsetDirReturnsNearest ==
    (/\ SimilarRun
     /\ call.input \in ThreeFields
     /\ ~vector_store_dir.some
     /\ sqlLog # <<>>
     /\ sqlLog[1].out.kind = "ok"
     /\ sqlLog[1].out.rows # <<>>)
        => /\ Len(sqlLog) = 1
           /\ sqlLog[1].query = SelectDistinct(<<"c">>, <<"t">>)
           /\ vssArgs.called
           /\ vssArgs.col_lst = Some(sqlLog[1].out.rows)
           /\ ret = Return(similarity_search(sqlLog[1].out.rows, split(call.input)[1]))

\* C8: a SimilarValueTool run on fewer than three fields fails with
\* InvalidInput, before any query is sent or index touched.
C8_TooFewFieldsInvalidInput ==
    (SimilarRun /\ call.input \in {TwoFields, OneField})
        => /\ ret.kind = "raise"
           /\ ret.exc = "InvalidInput"
           /\ sqlLog = <<>>
           /\ indexOps = <<>>

\* C9: an asynchronous invocation of any of the three tools raises
\* NotImplementedError, sends no query, makes no index call and leaves the
\* file system and the configuration as they were.
C9_ArunRaisesUnchanged ==
    [][call'.op = "_arun"
        => /\ ret' = Raise("NotImplementedError", <<>>)
           /\ sqlLog' = <<>>
           /\ indexOps' = <<>>
           /\ ~vssArgs'.called
           /\ disk' = disk
           /\ UNCHANGED <<pyspark_errors, vector_store_dir>>]_vars

C9_Witness ==
    /\ call.op = "_arun"
    /\ call.tool = "similar_value"
    /\ call.input \in ThreeFields
    /\ ~Truthy(vector_store_dir)
    /\ ret.exc = "NotImplementedError"

\* C10: with a storage directory configured, a SimilarValueTool run on a
\* three-field input sends no query and calls the vector search with a null
\* corpus and a null path, so it neither loads nor saves an index and nothing
\* is ever stored under the directory.
C10_ConfiguredDirSkipsEngine ==
    [][(Truthy(vector_store_dir) /\ call'.tool = "similar_value" /\ call'.op = "_run"
            /\ call'.input \in ThreeFields)
        => /\ sqlLog' = <<>>
           /\ vssArgs' = Vss(None, None, split(call'.input)[1])
           /\ "load_local" \notin Ops(indexOps')
           /\ "save_local" \notin Ops(indexOps')
           /\ disk' = disk
           /\ ~exists(disk', StoreDir \o ViewColPath)]_vars

C10_Witness ==
    /\ SimilarRun
    /\ call.input \in ThreeFields
    /\ vector_store_dir = Some(StoreDir)
    /\ sqlLog = <<>>
    /\ vssArgs.called
    /\ ret.kind = "raise"

====
